---- MODULE Spec2Model ----
(***************************************************************************)
(* A model of three parts of gwsumm:                                       *)
(*   gwsumm/channels.py       get_channel, get_channels and the worker     *)
(*                            thread ThreadChannelQuery                    *)
(*   gwsumm/archive.py        write_data_archive with its backup/restore   *)
(*   gwsumm/tabs/builtin.py   SimpleStateTab.process_state                 *)
(* Each part has its own next-state relation and specification; the parts  *)
(* share no state.                                                         *)
(***************************************************************************)
EXTENDS Integers, Sequences, FiniteSets, Bags, TLC

\* ------------------------------------------------------------------ bounds

\* longest list of names handed to get_channels (one worker thread per name)
MaxBatch == 2
\* a new top-level call is made only if CHANNELS stays within this many
\* records whatever the call adds
MaxRegistry == 3
\* depth at which the interpreter gives up on get_channel calling itself
MaxDepth == 3

\* temporary paths tempfile.mktemp can hand out for backups
MaxTmp == 1

\* the plots the tabs of a run hold between them
MaxPlots == 3

\* ------------------------------------------------------------ channel names

None == "none"

\* The channel tokens Channel.MATCH recognises in this model: two raw
\* channels of two observatories and a trend of the first.
Tokens == {"H1:A", "L1:B", "H1:A.mean"}

\* re.search('\.[a-z]+\Z', name): the token ends in a trend suffix
HasTrendSuffix(tok) == tok = "H1:A.mean"

\* new.name.rsplit('.')[0]: the raw channel a trend is computed from
TrendSource(tok) == IF tok = "H1:A.mean" THEN "H1:A" ELSE tok

\* Channel.ifo, as gwpy parses it from the name
IfoOf(tok) == IF tok = "L1:B" THEN "L1" ELSE "H1"

\* A channel name is the sequence of its tokens: one token for a plain
\* channel, several for a composite ("A B" is <<"A", "B">>).
RECURSIVE IfosOf(_)
IfosOf(name) ==
    IF name = <<>> THEN {} ELSE {IfoOf(Head(name))} \cup IfosOf(Tail(name))

\* A record of the registry: a gwpy Channel.
Chan(name, type, sr, subs, ifo) ==
    [name |-> name, type |-> type, sr |-> sr, subs |-> subs, ifo |-> ifo]

NoChan == Chan(<<>>, None, None, <<>>, {})

\* A request: a string "name" or "name,type" (obj = FALSE), or a Channel
\* object (obj = TRUE), which carries its type and sample rate.
StrReq(name, type) == [name |-> name, type |-> type, sr |-> None, obj |-> FALSE]
ObjReq(c) == [name |-> c.name, type |-> c.type, sr |-> c.sr, obj |-> TRUE]

\* globalv.CHANNELS is a list that get_channel only appends to, counts
\* matches in, and reads when exactly one record matches: the order of its
\* records is never read, and it is kept here as a bag of records.

\* ChannelList.sieve(name, type, sample_rate, exact_match=True): the records
\* with that name and, when given, that type and that sample rate.
Sieve(reg, name, type, sr) ==
    LET m == {c \in BagToSet(reg) :
                /\ c.name = name
                /\ (type = None \/ c.type = type)
                /\ (sr = None \/ c.sr = sr)}
    IN  [c \in m |-> reg[c]]

\* a count that takes several matches for one
MatchesAtMostOne(found) == IF BagCardinality(found) >= 1 THEN 1 ELSE 0

\* len(found), and found[0] when it is the only match
Matches(found) == BagCardinality(found)
TheMatch(found) == CHOOSE c \in BagToSet(found) : TRUE

\* a lookup that drops the type and the sample rate of the request
FoundByNameOnly(reg, req) == Sieve(reg, req.name, None, None)

\* get_channel, lines 80-96: the registry lookup of the request
Found(reg, req) ==
    IF Len(req.name) > 1
    THEN Sieve(reg, req.name, None, None)
    ELSE IF ~req.obj /\ req.type # None
    THEN Sieve(reg, req.name, req.type, None)
    ELSE Sieve(reg, req.name,
               IF req.obj THEN req.type ELSE None,
               IF req.obj THEN req.sr ELSE None)

\* get_channel, lines 108-115: a single raw channel. The remote query is
\* never made (line 110 raises first), so the record is Channel(str(channel)).
RawChannel(req) ==
    Chan(req.name, IF req.obj THEN None ELSE req.type, None, <<>>,
         IfosOf(req.name))

\* get_channel, lines 117-124: the type a trend gets
TrendType(req, mode) ==
    IF req.type # None THEN req.type
    ELSE IF mode = "GPS" THEN "s-trend" ELSE "m-trend"

\* get_channel, lines 145-149: the sample rate of a trend
TrendRate(type) ==
    IF type = "m-trend" THEN "1/60"
    ELSE IF type = "s-trend" THEN "1" ELSE None

\* get_channel, lines 117-149: a single trend channel
TrendChannel(req, mode) ==
    Chan(req.name, TrendType(req, mode), TrendRate(TrendType(req, mode)),
         <<>>, IfosOf(req.name))

\* get_channel, lines 152-155: a composite of the resolved parts
RECURSIVE PartIfos(_)
PartIfos(parts) ==
    IF parts = <<>> THEN {} ELSE Head(parts).ifo \cup PartIfos(Tail(parts))

CompositeChannel(name, parts) == Chan(name, None, None, parts, PartIfos(parts))

\* An exception object: what was raised, for which request, by which thread
\* (0 is the calling thread).
Exc(kind, name, by) == [exc |-> kind, name |-> name, by |-> by]
NoExc == Exc(None, <<>>, 0)

\* An item of the output queue: (i, channel), or an exception.
Item(i, c, e) == [idx |-> i, chan |-> c, err |-> e]
IsException(item) == item.err.exc # None

\* sorted(result, key=idx): a stable insertion sort of the items by index
RECURSIVE InsertByIdx(_, _)
InsertByIdx(sorted, item) ==
    IF sorted = <<>> THEN <<item>>
    ELSE IF item.idx < Head(sorted).idx THEN <<item>> \o sorted
    ELSE <<Head(sorted)>> \o InsertByIdx(Tail(sorted), item)

RECURSIVE SortedByIdx(_)
SortedByIdx(items) ==
    IF items = <<>> THEN <<>>
    ELSE InsertByIdx(SortedByIdx(SubSeq(items, 1, Len(items) - 1)),
                     items[Len(items)])

\* the results in the order they were taken off the queue
BatchResultUnsorted(items) == [i \in 1..Len(items) |-> items[i].chan]

\* get_channels, line 197: zip(*sorted(result, key=idx))[1]
BatchResult(items) ==
    LET s == SortedByIdx(items) IN [i \in 1..Len(s) |-> s[i].chan]

\* ---------------------------------------------------------------- state

VARIABLES
    CHANNELS,      \* globalv.CHANNELS
    MODE,          \* globalv.MODE
    nquery,        \* remote Channel.query calls made so far
    call,          \* the top-level call in progress or last made
    ret,           \* the outcome of the top-level get_channel
    mpc,           \* where the calling thread is
    mreq,          \* the request of the calling thread's get_channel
    mnew,          \* the channel it has constructed
    mdepth,        \* how deep get_channel has called itself
    bnames,        \* the names given to get_channels
    bput,          \* index of the next assignment to put
    bgot,          \* the items taken off the output queue so far
    bret,          \* the outcome of get_channels
    qmade,         \* the two queues have been created
    inqueue,       \* Queue of (i, name) assignments
    outqueue,      \* Queue of results and exceptions
    inUnfinished,  \* inqueue.unfinished_tasks
    outUnfinished, \* outqueue.unfinished_tasks
    outlog,        \* every item put on the output queue, in order
    wpc,           \* where each worker thread is
    wjob,          \* the assignment each worker took
    wreq,          \* the request of each worker's get_channel
    wnew,          \* the channel each worker constructed
    wres           \* the item each worker reports

VARIABLES
    fs,            \* the file system: what each path holds
    DATA,          \* globalv.DATA: the time-series held
    SPECTROGRAMS,  \* globalv.SPECTROGRAMS: the spectrograms held
    SEGMENTS,      \* globalv.SEGMENTS: the data-quality flags held
    apc,           \* where write_data_archive is
    aargs,         \* its arguments timeseries, spectrogram, segments
    backup,        \* its local backup: a temporary path, or NoPath
    prior,         \* what outfile held when it was called
    werr,          \* the error the write raised, and at which stage
    aret,          \* how the call ended
    rret           \* how the last read_data_archive ended, and whether
                   \* the collections were empty when it was called

arVars == <<fs, DATA, SPECTROGRAMS, SEGMENTS, apc, aargs, backup, prior,
            werr, aret, rret>>

VARIABLES
    plots,          \* tab.plots of each tab, each plot with its new flag
    WRITTEN_PLOTS,  \* globalv.WRITTEN_PLOTS: the output paths recorded
    tpc,            \* where process_state is
    tcall,          \* its tab, state and whether a plotqueue was given
    entry,          \* WRITTEN_PLOTS as it was when it was called
    requests,       \* what each acquisition call of this call was asked for
    todo,           \* the sorted selected plots not yet dispatched
    dlog,           \* the tab and plot that recorded each entry of WRITTEN_PLOTS
    running,        \* the plots whose subprocess has not finished
    tret            \* how the call ended

tbVars == <<plots, WRITTEN_PLOTS, tpc, tcall, entry, requests, todo, dlog,
            running, tret>>

chVars == <<CHANNELS, MODE, nquery, call, ret, mpc, mreq, mnew, mdepth,
            bnames, bput, bgot, bret, qmade, inqueue, outqueue,
            inUnfinished, outUnfinished, outlog, wpc, wjob, wreq, wnew, wres>>

vars == <<chVars, arVars, tbVars>>

\* what the steps of each component leave alone
notChannels == <<arVars, tbVars>>
notArchive == <<chVars, tbVars>>
notTabs == <<chVars, arVars>>

Workers == 1..MaxBatch

Outcome(st, val, e) == [st |-> st, val |-> val, err |-> e]

NoJob == [idx |-> 0, name |-> <<>>]

InitChannels ==
    /\ CHANNELS = EmptyBag
    /\ MODE \in {"GPS", "DAY"}
    /\ nquery = 0
    /\ call = [op |-> None, req |-> StrReq(<<>>, None), names |-> <<>>,
               fts |-> FALSE]
    /\ ret = Outcome(None, NoChan, NoExc)
    /\ mpc = "idle"
    /\ mreq = StrReq(<<>>, None)
    /\ mnew = NoChan
    /\ mdepth = 0
    /\ bnames = <<>>
    /\ bput = 0
    /\ bgot = <<>>
    /\ bret = Outcome(None, <<>>, NoExc)
    /\ qmade = FALSE
    /\ inqueue = <<>>
    /\ outqueue = <<>>
    /\ inUnfinished = 0
    /\ outUnfinished = 0
    /\ outlog = <<>>
    /\ wpc = [w \in Workers |-> "off"]
    /\ wjob = [w \in Workers |-> NoJob]
    /\ wreq = [w \in Workers |-> StrReq(<<>>, None)]
    /\ wnew = [w \in Workers |-> NoChan]
    /\ wres = [w \in Workers |-> Item(0, NoChan, NoExc)]

\* ------------------------------------------------- the calling thread

\* no thread of an earlier batch is still running
Quiescent == \A w \in Workers : wpc[w] \in {"off", "done"}

\* composite names a caller may ask for
Composites ==
    {<<"H1:A", "L1:B">>, <<"H1:A", "H1:A">>, <<"H1:A.mean", "L1:B">>}

\* what a caller may hand to get_channel: a name, a trend name with its
\* type, a composite name, or a Channel the registry holds
TopRequests ==
    {StrReq(<<t>>, None) : t \in Tokens}
    \cup {StrReq(<<"H1:A.mean">>, ty) : ty \in {"m-trend", "s-trend"}}
    \cup {StrReq(n, None) : n \in Composites}
    \cup {ObjReq(c) : c \in BagToSet(CHANNELS)}

\* what a caller may hand to get_channels
BatchInputs == UNION {[1..n -> Tokens] : n \in 0..MaxBatch}

\* a fresh call starts from fresh locals; the threads and queues of an
\* earlier batch are gone
FreshBatch(names, st) ==
    /\ bnames' = names
    /\ bput' = 0
    /\ bgot' = <<>>
    /\ bret' = Outcome(st, <<>>, NoExc)
    /\ qmade' = FALSE
    /\ inqueue' = <<>>
    /\ outqueue' = <<>>
    /\ inUnfinished' = 0
    /\ outUnfinished' = 0
    /\ outlog' = <<>>
    /\ wpc' = [w \in Workers |-> "off"]
    /\ wjob' = [w \in Workers |-> NoJob]
    /\ wreq' = [w \in Workers |-> StrReq(<<>>, None)]
    /\ wnew' = [w \in Workers |-> NoChan]
    /\ wres' = [w \in Workers |-> Item(0, NoChan, NoExc)]

batchVars == <<bnames, bput, bgot, bret, qmade, inqueue, outqueue,
               inUnfinished, outUnfinished, outlog>>
workerVars == <<wpc, wjob, wreq, wnew, wres>>

\* the most records a get_channel(req, find_trend_source=fts) can add
MayAdd(req, fts) ==
    IF Matches(Found(CHANNELS, req)) > 0 THEN 0
    ELSE IF Len(req.name) > 1 THEN Len(req.name) + 1
    ELSE IF HasTrendSuffix(req.name[1]) /\ fts THEN 2 ELSE 1

\* a caller calls get_channel(req, find_trend_source=fts)
CallGetChannel ==
    /\ mpc = "idle"
    /\ Quiescent
    /\ \E req \in TopRequests, fts \in BOOLEAN :
        /\ BagCardinality(CHANNELS) + MayAdd(req, fts) <= MaxRegistry
        /\ fts \/ (Len(req.name) = 1 /\ HasTrendSuffix(req.name[1]))
        /\ call' = [op |-> "get_channel", req |-> req, names |-> <<>>,
                    fts |-> fts]
        /\ mreq' = req
    /\ ret' = Outcome("pending", NoChan, NoExc)
    /\ mnew' = NoChan
    /\ mdepth' = 0
    /\ mpc' = "sieve"
    /\ FreshBatch(<<>>, None)
    /\ UNCHANGED <<CHANNELS, MODE, nquery>>
    /\ UNCHANGED notChannels

\* a caller calls get_channels(names)
CallGetChannels ==
    /\ mpc = "idle"
    /\ Quiescent
    /\ \E names \in BatchInputs :
        /\ BagCardinality(CHANNELS) + Len(names) <= MaxRegistry
        /\ call' = [op |-> "get_channels", req |-> StrReq(<<>>, None),
                    names |-> names, fts |-> FALSE]
        /\ FreshBatch(names, "pending")
    /\ ret' = Outcome(None, NoChan, NoExc)
    /\ mreq' = StrReq(<<>>, None)
    /\ mnew' = NoChan
    /\ mdepth' = 0
    /\ mpc' = "b_start"
    /\ UNCHANGED <<CHANNELS, MODE, nquery>>
    /\ UNCHANGED notChannels

\* get_channel returns c to the caller
Return(c) ==
    /\ ret' = Outcome("ok", c, NoExc)
    /\ mpc' = "idle"

\* get_channel raises e to the caller
Raise(e) ==
    /\ ret' = Outcome("err", NoChan, e)
    /\ mpc' = "idle"

\* get_channel, lines 80-124 and 150-152: look the request up; return the
\* one match, fail on several, and on none decide what to construct
GetChannelLookup ==
    /\ mpc = "sieve"
    /\ LET found == Found(CHANNELS, mreq) IN
       IF Matches(found) = 1
       THEN Return(TheMatch(found)) /\ UNCHANGED <<mnew, bnames, bret>>
       ELSE IF Matches(found) > 1
       THEN /\ Raise(Exc("ValueError", mreq.name, 0))
            /\ UNCHANGED <<mnew, bnames, bret>>
       ELSE IF mdepth >= MaxDepth
       THEN /\ Raise(Exc("RuntimeError", call.req.name, 0))
            /\ UNCHANGED <<mnew, bnames, bret>>
       ELSE IF Len(mreq.name) = 1 /\ ~HasTrendSuffix(mreq.name[1])
       THEN /\ mnew' = RawChannel(mreq)
            /\ mpc' = "append"
            /\ UNCHANGED <<ret, bnames, bret>>
       ELSE IF Len(mreq.name) = 1
       THEN /\ mnew' = TrendChannel(mreq, MODE)
            /\ mpc' = IF call.fts \/ mdepth > 0 THEN "src_sieve" ELSE "append"
            /\ UNCHANGED <<ret, bnames, bret>>
       ELSE /\ bnames' = mreq.name
            /\ bret' = Outcome("pending", <<>>, NoExc)
            /\ mpc' = "b_start"
            /\ UNCHANGED <<ret, mnew>>
    /\ UNCHANGED <<CHANNELS, MODE, nquery, call, mreq, mdepth, bput, bgot,
                   qmade, inqueue, outqueue, inUnfinished, outUnfinished,
                   outlog, workerVars>>
    /\ UNCHANGED notChannels

\* the request for the raw source of the trend being built (line 127)
SourceReq == StrReq(<<TrendSource(mreq.name[1])>>, None)

\* get_channel, line 127: get_channel(source) looks the source up; a
\* ValueError for an ambiguous source is passed over (line 128)
TrendSourceLookup ==
    /\ mpc = "src_sieve"
    /\ mpc' = IF Matches(Found(CHANNELS, SourceReq)) = 0
              THEN "src_append" ELSE "append"
    /\ UNCHANGED <<CHANNELS, MODE, nquery, call, ret, mreq, mnew, mdepth,
                   batchVars, workerVars>>
    /\ UNCHANGED notChannels

\* get_channel(source), line 156: the bare source record is registered
TrendSourceAppend ==
    /\ mpc = "src_append"
    /\ CHANNELS' = CHANNELS (+) SetToBag({RawChannel(SourceReq)})
    /\ mpc' = "src_resolve"
    /\ UNCHANGED <<MODE, nquery, call, ret, mreq, mnew, mdepth,
                   batchVars, workerVars>>
    /\ UNCHANGED notChannels

\* get_channel(source), line 158: the source is resolved again, and the
\* trend takes its url and unit (none, for a bare record)
TrendSourceResolve ==
    /\ mpc = "src_resolve"
    /\ Matches(Found(CHANNELS, ObjReq(RawChannel(SourceReq)))) >= 1
    /\ mpc' = "append"
    /\ UNCHANGED <<CHANNELS, MODE, nquery, call, ret, mreq, mnew, mdepth,
                   batchVars, workerVars>>
    /\ UNCHANGED notChannels

\* a get_channel that resolves the new channel again without registering it
GetChannelAppendNothing ==
    /\ mpc = "append"
    /\ mreq' = ObjReq(mnew)
    /\ mdepth' = mdepth + 1
    /\ mpc' = "sieve"
    /\ UNCHANGED <<CHANNELS, MODE, nquery, call, ret, mnew, batchVars,
                   workerVars>>
    /\ UNCHANGED notChannels

\* get_channel, lines 156-158: register the new channel and resolve it again
GetChannelAppend ==
    /\ mpc = "append"
    /\ CHANNELS' = CHANNELS (+) SetToBag({mnew})
    /\ mreq' = ObjReq(mnew)
    /\ mdepth' = mdepth + 1
    /\ mpc' = "sieve"
    /\ UNCHANGED <<MODE, nquery, call, ret, mnew, batchVars, workerVars>>
    /\ UNCHANGED notChannels

\* ------------------------------------------------------- get_channels

\* get_channels hands its result to its caller: the top-level caller, or
\* get_channel building a composite (lines 152-155)
BatchReturn(result) ==
    /\ bret' = Outcome("ok", result, NoExc)
    /\ IF call.op = "get_channels"
       THEN mpc' = "idle" /\ UNCHANGED mnew
       ELSE mpc' = "append" /\ mnew' = CompositeChannel(mreq.name, result)
    /\ UNCHANGED ret

\* get_channels gives back what it has gathered instead of raising
BatchReturnPartial(e) ==
    /\ bret' = Outcome("ok", BatchResult(bgot), NoExc)
    /\ IF call.op = "get_channels"
       THEN mpc' = "idle" /\ UNCHANGED mnew
       ELSE mpc' = "append"
            /\ mnew' = CompositeChannel(mreq.name, BatchResult(bgot))
    /\ UNCHANGED ret

\* get_channels raises e; get_channel does not catch it
BatchRaise(e) ==
    /\ bret' = Outcome("err", <<>>, e)
    /\ mpc' = "idle"
    /\ ret' = IF call.op = "get_channels" THEN ret
              ELSE Outcome("err", NoChan, e)
    /\ UNCHANGED mnew

\* get_channels, lines 170-181: nothing to do for an empty list; otherwise
\* the two queues are made and one thread per name is started
GetChannelsStart ==
    /\ mpc = "b_start"
    /\ IF Len(bnames) = 0
       THEN /\ BatchReturn(<<>>)
            /\ UNCHANGED <<qmade, wpc, bput>>
       ELSE /\ qmade' = TRUE
            /\ wpc' = [w \in Workers |->
                          IF w <= Len(bnames) THEN "wait" ELSE "off"]
            /\ bput' = 1
            /\ mpc' = "b_put"
            /\ UNCHANGED <<ret, mnew, bret>>
    /\ UNCHANGED <<CHANNELS, MODE, nquery, call, mreq, mdepth, bnames, bgot,
                   inqueue, outqueue, inUnfinished, outUnfinished, outlog,
                   wjob, wreq, wnew, wres>>
    /\ UNCHANGED notChannels

\* get_channels, lines 184-185: inqueue.put((i, c))
GetChannelsPut ==
    /\ mpc = "b_put"
    /\ inqueue' = Append(inqueue, [idx |-> bput, name |-> <<bnames[bput]>>])
    /\ inUnfinished' = inUnfinished + 1
    /\ bput' = bput + 1
    /\ mpc' = IF bput = Len(bnames) THEN "b_injoin" ELSE "b_put"
    /\ UNCHANGED <<CHANNELS, MODE, nquery, call, ret, mreq, mnew, mdepth,
                   bnames, bgot, bret, qmade, outqueue, outUnfinished,
                   outlog, workerVars>>
    /\ UNCHANGED notChannels

\* get_channels, line 188: inqueue.join() returns once every assignment
\* put has been marked done
GetChannelsJoinIn ==
    /\ mpc = "b_injoin"
    /\ inUnfinished = 0
    /\ mpc' = "b_outjoin"
    /\ UNCHANGED <<CHANNELS, MODE, nquery, call, ret, mreq, mnew, mdepth,
                   batchVars, workerVars>>
    /\ UNCHANGED notChannels

\* get_channels, line 189: outqueue.join() returns when no item put on the
\* output queue is waiting for its task_done
GetChannelsJoinOut ==
    /\ mpc = "b_outjoin"
    /\ outUnfinished = 0
    /\ mpc' = "b_get"
    /\ UNCHANGED <<CHANNELS, MODE, nquery, call, ret, mreq, mnew, mdepth,
                   batchVars, workerVars>>
    /\ UNCHANGED notChannels

\* get_channels, lines 191-197: outqueue.get() waits for the next item; an
\* exception is raised at once, a result is kept, and after len(channels)
\* results the list is put in input order
GetChannelsGet ==
    /\ mpc = "b_get"
    /\ outqueue # <<>>
    /\ outqueue' = Tail(outqueue)
    /\ LET c == Head(outqueue) IN
       IF IsException(c)
       THEN BatchRaise(c.err) /\ UNCHANGED bgot
       ELSE /\ bgot' = Append(bgot, c)
            /\ IF Len(bgot) + 1 = Len(bnames)
               THEN BatchReturn(BatchResult(Append(bgot, c)))
               ELSE UNCHANGED <<mpc, ret, mnew, bret>>
    /\ UNCHANGED <<CHANNELS, MODE, nquery, call, mreq, mdepth, bnames, bput,
                   qmade, inqueue, inUnfinished, outUnfinished, outlog,
                   workerVars>>
    /\ UNCHANGED notChannels

\* --------------------------------------------------- ThreadChannelQuery

\* run, lines 52-55: self.in_.get() waits for an assignment and
\* self.in_.task_done() marks it done at once; get_channel(channel) begins.
\* Nothing but inqueue.join() reads the count between the two calls. The
\* threads of a batch are alike (same queues, same arguments), so they are
\* numbered in the order in which they come to take an assignment.
WorkerTake(w) ==
    /\ wpc[w] = "wait"
    /\ \A v \in Workers : v < w => wpc[v] # "wait"
    /\ inqueue # <<>>
    /\ wjob' = [wjob EXCEPT ![w] = Head(inqueue)]
    /\ inqueue' = Tail(inqueue)
    /\ inUnfinished' = inUnfinished - 1
    /\ wreq' = [wreq EXCEPT ![w] = StrReq(Head(inqueue).name, None)]
    /\ wpc' = [wpc EXCEPT ![w] = "sieve"]
    /\ UNCHANGED <<CHANNELS, MODE, nquery, call, ret, mpc, mreq, mnew, mdepth,
                   bnames, bput, bgot, bret, qmade, outqueue,
                   outUnfinished, outlog, wnew, wres>>
    /\ UNCHANGED notChannels

\* the worker's get_channel(channel, find_trend_source=False), lines 80-124:
\* the lookup; its result or its ValueError is what the worker will report
WorkerLookup(w) ==
    /\ wpc[w] = "sieve"
    /\ LET found == Found(CHANNELS, wreq[w]) IN
       IF Matches(found) = 1
       THEN /\ wres' = [wres EXCEPT ![w] = Item(wjob[w].idx, TheMatch(found), NoExc)]
            /\ wpc' = [wpc EXCEPT ![w] = "put"]
            /\ UNCHANGED wnew
       ELSE IF Matches(found) > 1
       THEN /\ wres' = [wres EXCEPT ![w] =
                  Item(0, NoChan, Exc("ValueError", wreq[w].name, w))]
            /\ wpc' = [wpc EXCEPT ![w] = "put"]
            /\ UNCHANGED wnew
       ELSE /\ wnew' = [wnew EXCEPT ![w] =
                  IF HasTrendSuffix(wreq[w].name[1])
                  THEN TrendChannel(wreq[w], MODE)
                  ELSE RawChannel(wreq[w])]
            /\ wpc' = [wpc EXCEPT ![w] = "append"]
            /\ UNCHANGED wres
    /\ UNCHANGED <<CHANNELS, MODE, nquery, call, ret, mpc, mreq, mnew, mdepth,
                   batchVars, wjob, wreq>>
    /\ UNCHANGED notChannels

\* the worker's get_channel, lines 156-158: register and resolve again
WorkerAppend(w) ==
    /\ wpc[w] = "append"
    /\ CHANNELS' = CHANNELS (+) SetToBag({wnew[w]})
    /\ wreq' = [wreq EXCEPT ![w] = ObjReq(wnew[w])]
    /\ wpc' = [wpc EXCEPT ![w] = "sieve"]
    /\ UNCHANGED <<MODE, nquery, call, ret, mpc, mreq, mnew, mdepth,
                   batchVars, wjob, wnew, wres>>
    /\ UNCHANGED notChannels

\* run, lines 55 and 59: self.out.put(...)
WorkerPut(w) ==
    /\ wpc[w] = "put"
    /\ outqueue' = Append(outqueue, wres[w])
    /\ outlog' = Append(outlog, wres[w])
    /\ outUnfinished' = outUnfinished + 1
    /\ wpc' = [wpc EXCEPT ![w] = "reported"]
    /\ UNCHANGED <<CHANNELS, MODE, nquery, call, ret, mpc, mreq, mnew, mdepth,
                   bnames, bput, bgot, bret, qmade, inqueue, inUnfinished,
                   wjob, wreq, wnew, wres>>
    /\ UNCHANGED notChannels

\* a thread that ends without self.out.task_done()
WorkerEndsWithoutTaskDone(w) ==
    /\ wpc[w] = "reported"
    /\ wpc' = [wpc EXCEPT ![w] = "done"]
    /\ UNCHANGED <<CHANNELS, MODE, nquery, call, ret, mpc, mreq, mnew, mdepth,
                   batchVars, wjob, wreq, wnew, wres>>
    /\ UNCHANGED notChannels

\* run, line 60: self.out.task_done(), and the thread ends
WorkerTaskDoneOut(w) ==
    /\ wpc[w] = "reported"
    /\ outUnfinished' = outUnfinished - 1
    /\ wpc' = [wpc EXCEPT ![w] = "done"]
    /\ UNCHANGED <<CHANNELS, MODE, nquery, call, ret, mpc, mreq, mnew, mdepth,
                   bnames, bput, bgot, bret, qmade, inqueue, outqueue,
                   inUnfinished, outlog, wjob, wreq, wnew, wres>>
    /\ UNCHANGED notChannels

NextChannels ==
    \/ CallGetChannel
    \/ CallGetChannels
    \/ GetChannelLookup
    \/ TrendSourceLookup
    \/ TrendSourceAppend
    \/ TrendSourceResolve
    \/ GetChannelAppend
    \/ GetChannelsStart
    \/ GetChannelsPut
    \/ GetChannelsJoinIn
    \/ GetChannelsJoinOut
    \/ GetChannelsGet
    \/ \E w \in Workers : WorkerTake(w)
    \/ \E w \in Workers : WorkerLookup(w)
    \/ \E w \in Workers : WorkerAppend(w)
    \/ \E w \in Workers : WorkerPut(w)
    \/ \E w \in Workers : WorkerTaskDoneOut(w)

\* get_channels called from outside, with its threads
NextBatch ==
    \/ CallGetChannels
    \/ GetChannelsStart
    \/ GetChannelsPut
    \/ GetChannelsJoinIn
    \/ GetChannelsJoinOut
    \/ GetChannelsGet
    \/ \E w \in Workers : WorkerTake(w)
    \/ \E w \in Workers : WorkerLookup(w)
    \/ \E w \in Workers : WorkerAppend(w)
    \/ \E w \in Workers : WorkerPut(w)
    \/ \E w \in Workers : WorkerTaskDoneOut(w)

\* the scheduler is fair: the calling thread and every started thread go on
\* whenever they can; whether get_channels is called at all is up to the
\* caller
BatchFairness ==
    /\ WF_vars(GetChannelsStart)
    /\ WF_vars(GetChannelsPut)
    /\ WF_vars(GetChannelsJoinIn)
    /\ WF_vars(GetChannelsJoinOut)
    /\ WF_vars(GetChannelsGet)
    /\ \A w \in Workers :
          /\ WF_vars(WorkerTake(w))
          /\ WF_vars(WorkerLookup(w))
          /\ WF_vars(WorkerAppend(w))
          /\ WF_vars(WorkerPut(w))
          /\ WF_vars(WorkerTaskDoneOut(w))

\* ------------------------------------------------ claims on the resolver

\* two records are the same (name, type, sample_rate) triple
SameTriple(c, d) == c.name = d.name /\ c.type = d.type /\ c.sr = d.sr

\* how many records of the registry have the triple of c
TripleCount(c) ==
    BagCardinality([d \in {d \in BagToSet(CHANNELS) : SameTriple(c, d)}
                       |-> CHANNELS[d]])

\* C1: in every reachable state globalv.CHANNELS holds at most one record
\* per (name, type, sample_rate) triple.
C1_OneRecordPerTriple ==
    \A c \in BagToSet(CHANNELS) : TripleCount(c) <= 1

\* C2: when get_channels returns, its result is as long as the list of
\* names and its i-th element is the channel a worker reported for
\* assignment i, a channel named names[i], whatever the order of the
\* reports; for an empty list it returns an empty sequence and no queue was
\* made and no worker started.
C2_ResultInInputOrder ==
    bret.st = "ok" =>
        /\ Len(bret.val) = Len(bnames)
        /\ \A i \in 1..Len(bnames) :
              /\ bret.val[i].name = <<bnames[i]>>
              /\ \E k \in 1..Len(outlog) :
                    /\ ~IsException(outlog[k])
                    /\ outlog[k].idx = i
                    /\ outlog[k].chan = bret.val[i]
        /\ bnames = <<>> =>
              /\ bret.val = <<>>
              /\ ~qmade
              /\ \A w \in Workers : wpc[w] = "off"

\* a batch of two different names returned although the worker of the second
\* name reported first
C2_Witness ==
    /\ bret.st = "ok"
    /\ Len(bnames) = 2
    /\ bnames[1] # bnames[2]
    /\ Len(outlog) = 2
    /\ outlog[1].idx = 2

\* C3: a get_channels call that has raised raised the first exception put on
\* the output queue and handed no result list to its caller (get_channel,
\* building a composite, fails with the same exception); a call that has
\* returned a list had no exception reported by any worker.
C3_FirstExceptionRaised ==
    /\ bret.st = "err" =>
          /\ bret.val = <<>>
          /\ \E k \in 1..Len(outlog) :
                /\ IsException(outlog[k])
                /\ outlog[k].err = bret.err
                /\ \A j \in 1..(k - 1) : ~IsException(outlog[j])
          /\ call.op = "get_channel" =>
                ret = Outcome("err", NoChan, bret.err)
    /\ bret.st = "ok" =>
          \A k \in 1..Len(outlog) : ~IsException(outlog[k])

\* a batch raised after one worker had reported a result and, after it,
\* another an exception
C3_Witness ==
    /\ bret.st = "err"
    /\ Len(outlog) = 2
    /\ ~IsException(outlog[1])
    /\ IsException(outlog[2])

\* C4: once get_channels has returned or raised, every worker thread of the
\* batch has put its result or its exception on the output queue.
C4_AllReportedAtExit ==
    bret.st \in {"ok", "err"} =>
        \A w \in 1..Len(bnames) : wpc[w] \in {"reported", "done"}

\* get_channels is running
InBatch == mpc \in {"b_start", "b_put", "b_injoin", "b_outjoin", "b_get"}

\* every thread of the batch has taken an assignment, put one item and
\* ended, and the assignments taken are the assignments put, each once
AllWorkersDone ==
    /\ \A w \in 1..Len(bnames) : wpc[w] = "done"
    /\ {wjob[w].idx : w \in 1..Len(bnames)} = 1..Len(bnames)
    /\ Len(outlog) = Len(bnames)

\* C20: under fair scheduling a get_channels call on one name or more comes
\* to its end, so the caller is not held for ever by inqueue.join,
\* outqueue.join or outqueue.get; every thread takes one assignment and puts
\* one item, and no assignment is taken by two threads
C20_BatchTerminates ==
    /\ InBatch ~> (mpc = "idle")
    /\ (mpc = "b_put") ~> AllWorkersDone
    /\ [](/\ Len(outlog) <= Len(bnames)
          /\ \A v, w \in Workers :
                (v # w /\ wjob[v] # NoJob /\ wjob[w] # NoJob)
                    => wjob[v].idx # wjob[w].idx)

C20_Witness ==
    /\ mpc = "idle"
    /\ call.op = "get_channels"
    /\ bret.st = "ok"
    /\ Len(bnames) = MaxBatch
    /\ AllWorkersDone

\* the request and the record agree in name, and in type and sample rate
\* when the request carries them
MatchesRequest(c, req) ==
    /\ c.name = req.name
    /\ (req.type = None \/ c.type = req.type)
    /\ (req.sr = None \/ c.sr = req.sr)

\* how many records of the registry match the request
MatchCount(req) ==
    BagCardinality([c \in {c \in BagToSet(CHANNELS) : MatchesRequest(c, req)}
                       |-> CHANNELS[c]])

\* the calling thread takes the first step of a get_channel call
EntryStep == mpc = "sieve" /\ mdepth = 0 /\ mpc' # mpc

\* C5: if the registry holds exactly one record matching the request,
\* get_channel returns that record, makes no remote query and leaves the
\* registry as it is; and after a get_channel that returned a record, that
\* record is the one match of its request, so the same request gets it again.
C5_ExactMatchReturned ==
    /\ [][(EntryStep /\ MatchCount(mreq) = 1) =>
            /\ mpc' = "idle"
            /\ ret'.st = "ok"
            /\ MatchesRequest(ret'.val, mreq)
            /\ CHANNELS[ret'.val] = 1
            /\ CHANNELS' = CHANNELS
            /\ nquery' = nquery]_vars
    /\ []((mpc = "idle" /\ call.op = "get_channel" /\ ret.st = "ok") =>
            /\ MatchCount(call.req) = 1
            /\ MatchesRequest(ret.val, call.req)
            /\ CHANNELS[ret.val] = 1)

\* a request carrying a type was answered from a registry that holds another
\* record of the same name, without constructing anything
C5_Witness ==
    /\ mpc = "idle"
    /\ ret.st = "ok"
    /\ mdepth = 0
    /\ call.req.type = "s-trend"
    /\ BagCardinality(Sieve(CHANNELS, call.req.name, None, None)) = 2

\* C6: if the registry holds two or more records matching the request,
\* get_channel fails with the ValueError of an ambiguous request: it returns
\* no record, constructs no channel and adds nothing to the registry.
C6_AmbiguousRaises ==
    [][(EntryStep /\ MatchCount(mreq) >= 2) =>
          /\ mpc' = "idle"
          /\ ret' = Outcome("err", NoChan, Exc("ValueError", mreq.name, 0))
          /\ mnew' = NoChan
          /\ CHANNELS' = CHANNELS
          /\ nquery' = nquery]_vars

\* a request by name alone failed on a registry with two records of the name
C6_Witness ==
    /\ mpc = "idle"
    /\ mdepth = 0
    /\ call.req = StrReq(<<"H1:A.mean">>, None)
    /\ ret.st = "err"
    /\ ret.err.exc = "ValueError"
    /\ MatchCount(call.req) = 2

\* the request names one trend channel by its name alone
UntypedTrendRequest(req) ==
    /\ ~req.obj
    /\ req.type = None
    /\ Len(req.name) = 1
    /\ HasTrendSuffix(req.name[1])

\* C12: a get_channel that returns (its request was not ambiguous) returns a
\* channel of sample rate 1/60 for a trend name given without a type when
\* the mode is not GPS, and a channel of sample rate 1 for a request that
\* carries the type s-trend, in every mode.
C12_TrendSampleRate ==
    (mpc = "idle" /\ call.op = "get_channel" /\ ret.st = "ok") =>
        /\ (UntypedTrendRequest(call.req) /\ MODE # "GPS") =>
               ret.val.sr = "1/60"
        /\ call.req.type = "s-trend" => ret.val.sr = "1"

\* c is the one record of the registry a request by the name tok gets
OneMatchOf(tok, c) ==
    /\ MatchCount(StrReq(<<tok>>, None)) = 1
    /\ MatchesRequest(c, StrReq(<<tok>>, None))
    /\ CHANNELS[c] = 1

\* C13: a get_channel of a name made of two tokens returns a record of the
\* registry whose subchannels are, in token order, the records a get_channel
\* of each token gets, and whose ifo is the union of the ifos of the two.
C13_CompositeOfParts ==
    (mpc = "idle" /\ call.op = "get_channel" /\ Len(call.req.name) = 2) =>
        /\ ret.st = "ok"
        /\ BagIn(ret.val, CHANNELS)
        /\ Len(ret.val.subs) = 2
        /\ \A i \in 1..2 : OneMatchOf(call.req.name[i], ret.val.subs[i])
        /\ ret.val.ifo = ret.val.subs[1].ifo \cup ret.val.subs[2].ifo

\* get_channel(new), line 158, is looking the new channel up
ReResolving == mpc = "sieve" /\ mdepth >= 1

\* C21: a new channel is registered as one record; get_channel(new) finds
\* that record in the registry and ends by returning a record or by the
\* ambiguity error, leaving the registry as it is; so a call resolves again
\* at most once, never reaches the recursion limit, and the source of a
\* trend is found when it is resolved again
C21_ReResolvedOnce ==
    /\ [](mdepth <= 1)
    /\ [](ReResolving =>
             /\ BagIn(mnew, CHANNELS)
             /\ MatchesRequest(mnew, mreq)
             /\ Matches(Found(CHANNELS, mreq)) >= 1)
    /\ [](mpc = "src_resolve" =>
             Matches(Found(CHANNELS, ObjReq(RawChannel(SourceReq)))) >= 1)
    /\ []((mpc = "idle" /\ ret.st = "err") => ret.err.exc = "ValueError")
    /\ [][(mpc = "append" /\ mpc' # "append") =>
             CHANNELS' = CHANNELS (+) SetToBag({mnew})]_vars
    /\ [][(ReResolving /\ mpc' # mpc) =>
             /\ mpc' = "idle"
             /\ CHANNELS' = CHANNELS
             /\ \/ ret'.st = "ok" /\ MatchesRequest(ret'.val, mreq)
                \/ ret'.st = "err" /\ ret'.err.exc = "ValueError"]_vars

\* a composite was built, registered, and found again by the one
\* re-resolution
C21_Witness ==
    /\ mpc = "idle"
    /\ call.op = "get_channel"
    /\ Len(call.req.name) = 2
    /\ ret.st = "ok"
    /\ mdepth = 1
    /\ ret.val = mnew

\* the caller of the batch takes an exception from the output queue
GotException ==
    /\ mpc = "b_get"
    /\ outqueue # <<>>
    /\ IsException(Head(outqueue))
    /\ outqueue' = Tail(outqueue)

\* C22: a batch that fails is not rolled back. When the caller takes an
\* exception the call ends with that error and the registry stays as it is;
\* no record ever leaves the registry, so every channel a thread of the
\* failed batch reported is still registered afterwards; and the composite
\* whose batch failed is not in the registry
C22_FailedBatchKept ==
    /\ [][GotException =>
             /\ mpc' = "idle"
             /\ bret'.st = "err"
             /\ CHANNELS' = CHANNELS
             /\ call.op = "get_channel" => ret'.st = "err"]_vars
    /\ [][\A c \in BagToSet(CHANNELS) :
             BagIn(c, CHANNELS') /\ CHANNELS'[c] >= CHANNELS[c]]_vars
    /\ [](bret.st = "err" =>
             \A k \in 1..Len(outlog) :
                 ~IsException(outlog[k]) => BagIn(outlog[k].chan, CHANNELS))
    /\ []((bret.st = "err" /\ call.op = "get_channel") =>
             MatchCount(StrReq(call.req.name, None)) = 0)

\* the batch of a composite failed after one of its threads had registered
\* and reported its channel
C22_Witness ==
    /\ mpc = "idle"
    /\ call.op = "get_channel"
    /\ Len(call.req.name) = 2
    /\ bret.st = "err"
    /\ ret.st = "err"
    /\ \E k \in 1..Len(outlog) :
          ~IsException(outlog[k]) /\ BagIn(outlog[k].chan, CHANNELS)

\* the name of one raw channel
RawName(name) == Len(name) = 1 /\ ~HasTrendSuffix(name[1])

\* the remote query is never made and no failure of it is ever handed on
C25_QueryNeverMade ==
    /\ nquery = 0
    /\ ret.err.exc \in {None, "ValueError", "RuntimeError"}
    /\ bret.err.exc \in {None, "ValueError", "RuntimeError"}
    /\ \A w \in Workers : wres[w].err.exc \in {None, "ValueError"}

\* the calling thread's get_channel of a raw name it did not find builds the
\* bare record of the request, registers it and returns it
C25_CallerGetsBareRecord ==
    /\ [][(EntryStep /\ RawName(mreq.name) /\ MatchCount(mreq) = 0) =>
             /\ mnew' = RawChannel(mreq)
             /\ mpc' = "append"
             /\ nquery' = nquery]_vars
    /\ []((mpc = "idle" /\ call.op = "get_channel" /\ RawName(call.req.name)
            /\ mdepth >= 1) =>
             /\ ret.st = "ok"
             /\ ret.val = RawChannel(call.req)
             /\ BagIn(ret.val, CHANNELS))

\* C25: no get_channel makes the remote query or hands on a failure of it,
\* and every get_channel of a raw name it did not find in the registry, in
\* the calling thread or in a thread of a batch, ends with the bare record
\* it built from the request, registered, as its result
C25_RawAlwaysBareRecord ==
    /\ [](C25_QueryNeverMade)
    /\ C25_CallerGetsBareRecord
    /\ [](\A w \in Workers :
             (wpc[w] \in {"put", "reported", "done"} /\ wnew[w] # NoChan
              /\ RawName(wnew[w].name)) =>
                 /\ ~IsException(wres[w])
                 /\ wres[w].chan = wnew[w]
                 /\ BagIn(wnew[w], CHANNELS))

\* ----------------------------------------------------------- the archive

\* Paths: Outfile is the archive, 1..MaxTmp are the names mktemp may return.
Outfile == 0
TmpPaths == 1..MaxTmp
Paths == {Outfile} \cup TmpPaths
NoPath == -1

\* What a path holds: nothing, or an HDF5 file with some of the three groups
\* and the datasets of each.
\* A file that a write with all three kinds has completed also remembers
\* the keys the three collections had then (held).
NoHeld == [whole |-> FALSE, ts |-> {}, sg |-> {}, seg |-> {}]
FileOf(groups, ts, sg, seg) ==
    [exists |-> TRUE, groups |-> groups, ts |-> ts, sg |-> sg, seg |-> seg,
     held |-> NoHeld]
NoFile == [exists |-> FALSE, groups |-> {}, ts |-> {}, sg |-> {}, seg |-> {},
           held |-> NoHeld]
EmptyFile == FileOf({}, {}, {}, {})

\* The data a run may hold: time-series and spectrograms by name, channel
\* and epoch, flags by name.
\* The channel of each is a record the resolver made.
RawA == RawChannel(StrReq(<<"H1:A">>, None))
MinuteTrendA == TrendChannel(StrReq(<<"H1:A.mean">>, "m-trend"), "DAY")
TimeSeriesItems ==
    {[name |-> "H1:A.mean", channel |-> MinuteTrendA, epoch |-> 0]}
SpectrogramItems == {[name |-> "H1:A", channel |-> RawA, epoch |-> 0]}
FlagItems == {"H1:DMT-SCIENCE:1"}

\* Channel.ndsname: the name, with the type of a trend
NdsName(c) ==
    <<c.name, IF c.type \in {"m-trend", "s-trend"} THEN c.type ELSE None>>

\* write_data_archive, lines 62-63, 73 and 82: each dataset is stored under
\* a name, and holds the data object written
TsDataset(ts) ==
    [name |-> <<ts.name, NdsName(ts.channel), ts.epoch>>, value |-> ts]
SpecDataset(sp) == [name |-> <<sp.name, sp.epoch>>, value |-> sp]
FlagDataset(f) == [name |-> <<f>>, value |-> f]

\* add_timeseries(ts, key=ts.channel.ndsname) and add_spectrogram(spec):
\* the key a data object is held under
TimeSeriesKey(ts) == NdsName(ts.channel)
SpectrogramKey(sp) == sp.name

\* the keys of the three collections
HeldKeys(data, spectrograms, segments) ==
    [whole |-> TRUE, ts |-> {TimeSeriesKey(ts) : ts \in data},
     sg |-> {SpectrogramKey(sp) : sp \in spectrograms}, seg |-> segments]

\* an archive left by an earlier run
OldArchive ==
    [FileOf({"timeseries", "spectrogram", "segments"},
            {TsDataset(ts) : ts \in TimeSeriesItems}, {}, {})
        EXCEPT !.held = HeldKeys(TimeSeriesItems, {}, {})]

\* a move that is taken to have worked whatever the source
MoveNeverFails(files, src) == FALSE

\* shutil.move(src, dst): dst takes what src held and src is gone; it fails
\* with an IOError when src does not exist
MoveFails(files, src) == ~files[src].exists
Move(files, src, dst) ==
    [files EXCEPT ![dst] = files[src], ![src] = NoFile]

\* tempfile.mktemp: a name no file has; the temporary names are numbered in
\* the order they are handed out
MkTemp(files) ==
    CHOOSE p \in TmpPaths :
        ~files[p].exists /\ \A q \in TmpPaths : q < p => files[q].exists

\* a restore that leaves the files as they are
RestoreBackupSkipped(files, bk, target) == files

\* restore_backup, lines 142-145
RestoreBackup(files, bk, target) == Move(files, bk, target)

\* the errors a write can raise
WriteErrors == {"IOError", "RuntimeError"}

NoError == [exc |-> None, stage |-> None]

\* the arguments of write_data_archive while no call is running
NoArgs == [timeseries |-> FALSE, spectrogram |-> FALSE, segments |-> FALSE]

NoRead == [st |-> None, empty |-> FALSE]

InitArchive ==
    /\ fs \in {[p \in Paths |-> IF p = Outfile THEN f ELSE NoFile] :
                  f \in {NoFile, OldArchive}}
    /\ DATA = {}
    /\ SPECTROGRAMS = {}
    /\ SEGMENTS = {}
    /\ apc = "idle"
    /\ aargs = NoArgs
    /\ backup = NoPath
    /\ prior = NoFile
    /\ werr = NoError
    /\ aret = [st |-> None, err |-> None]
    /\ rret = NoRead

\* the registry apart, the state of the resolver
chRest == <<MODE, nquery, call, ret, mpc, mreq, mnew, mdepth, batchVars,
            workerVars>>

\* get_channel(channel) for the Channel object of a stored data object, run
\* to its end by the one thread of the read (lines 80-164 of channels.py,
\* find_trend_source=True): the outcome, the record and the registry after
Resolved(st, val, reg) == [st |-> st, val |-> val, reg |-> reg]

\* lines 156-158: the new record is registered and resolved again
Register(reg, new) ==
    LET reg2 == reg (+) SetToBag({new})
        found == Found(reg2, ObjReq(new))
    IN  IF Matches(found) = 1
        THEN Resolved("ok", TheMatch(found), reg2)
        ELSE Resolved("ValueError", NoChan, reg2)

\* lines 125-128: the source of a trend is resolved, and registered if new
WithTrendSource(reg, tok) ==
    LET src == StrReq(<<TrendSource(tok)>>, None)
    IN  IF Matches(Found(reg, src)) = 0
        THEN reg (+) SetToBag({RawChannel(src)})
        ELSE reg

\* a resolution of the stored channel by its name alone
GetChannelByName(reg, c, mode) ==
    LET req == StrReq(c.name, None)
        found == Found(reg, req)
    IN  IF Matches(found) = 1 THEN Resolved("ok", TheMatch(found), reg)
        ELSE IF Matches(found) > 1 THEN Resolved("ValueError", NoChan, reg)
        ELSE IF HasTrendSuffix(req.name[1])
        THEN Register(WithTrendSource(reg, req.name[1]),
                      TrendChannel(req, mode))
        ELSE Register(reg, RawChannel(req))

GetChannelOf(reg, c, mode) ==
    LET req == ObjReq(c)
        found == Found(reg, req)
    IN  IF Matches(found) = 1 THEN Resolved("ok", TheMatch(found), reg)
        ELSE IF Matches(found) > 1 THEN Resolved("ValueError", NoChan, reg)
        ELSE IF HasTrendSuffix(req.name[1])
        THEN Register(WithTrendSource(reg, req.name[1]),
                      TrendChannel(req, mode))
        ELSE Register(reg, RawChannel(req))

\* the locals and the outcome of the last write are gone when the next
\* operation begins
ForgetWrite ==
    /\ backup' = NoPath
    /\ prior' = NoFile
    /\ werr' = NoError
    /\ aret' = [st |-> None, err |-> None]

\* the run acquires data (add_timeseries, add_spectrogram, get_segments):
\* the channel of a time-series or spectrogram is one the resolver holds
Acquire ==
    /\ apc = "idle"
    /\ \/ \E ts \in TimeSeriesItems \ DATA :
            /\ DATA' = DATA \cup {ts}
            /\ CHANNELS' = GetChannelOf(CHANNELS, ts.channel, MODE).reg
            /\ UNCHANGED <<SPECTROGRAMS, SEGMENTS>>
       \/ \E sp \in SpectrogramItems \ SPECTROGRAMS :
            /\ SPECTROGRAMS' = SPECTROGRAMS \cup {sp}
            /\ CHANNELS' = GetChannelOf(CHANNELS, sp.channel, MODE).reg
            /\ UNCHANGED <<DATA, SEGMENTS>>
       \/ \E f \in FlagItems \ SEGMENTS :
            /\ SEGMENTS' = SEGMENTS \cup {f}
            /\ UNCHANGED <<CHANNELS, DATA, SPECTROGRAMS>>
    /\ ForgetWrite
    /\ rret' = NoRead
    /\ UNCHANGED <<fs, apc, aargs>>
    /\ UNCHANGED <<chRest, tbVars>>

\* write_data_archive(outfile, timeseries, spectrogram, segments) is called
WriteCall ==
    /\ apc = "idle"
    /\ \E p \in TmpPaths : ~fs[p].exists
    /\ \E t, g, f \in BOOLEAN :
          aargs' = [timeseries |-> t, spectrogram |-> g, segments |-> f]
    /\ apc' = "backup"
    /\ backup' = NoPath
    /\ prior' = fs[Outfile]
    /\ werr' = NoError
    /\ aret' = [st |-> "pending", err |-> None]
    /\ UNCHANGED <<fs, DATA, SPECTROGRAMS, SEGMENTS>>
    /\ rret' = NoRead
    /\ UNCHANGED notArchive

\* backup_existing_archive, lines 129-139: the archive is moved to a fresh
\* temporary path, or there is none and no backup
BackupExistingArchive ==
    /\ apc = "backup"
    /\ LET p == MkTemp(fs)
       IN  IF MoveFails(fs, Outfile)
           THEN backup' = NoPath /\ UNCHANGED fs
           ELSE backup' = p /\ fs' = Move(fs, Outfile, p)
    /\ apc' = "open"
    /\ UNCHANGED <<DATA, SPECTROGRAMS, SEGMENTS, aargs, prior, werr, aret>>
    /\ UNCHANGED rret
    /\ UNCHANGED notArchive

\* the write raises e at a stage: control goes to the except clause
WriteRaises(e, stage) ==
    /\ werr' = [exc |-> e, stage |-> stage]
    /\ apc' = "except"

\* write_data_archive, line 54: File(outfile, 'w') makes an empty file
WriteOpen ==
    /\ apc = "open"
    /\ \/ /\ fs' = [fs EXCEPT ![Outfile] = EmptyFile]
          /\ apc' = "timeseries"
          /\ UNCHANGED werr
       \/ /\ \E e \in WriteErrors : WriteRaises(e, "open")
          /\ UNCHANGED fs
    /\ UNCHANGED <<DATA, SPECTROGRAMS, SEGMENTS, aargs, backup, prior, aret>>
    /\ UNCHANGED rret
    /\ UNCHANGED notArchive

\* what one stage of the write adds to the file: its group and datasets
WithGroup(f, group, sets) ==
    [f EXCEPT !.groups = @ \cup {group},
              !.ts = IF group = "timeseries" THEN sets ELSE @,
              !.sg = IF group = "spectrogram" THEN sets ELSE @,
              !.seg = IF group = "segments" THEN sets ELSE @]

\* one stage of the write (lines 56-64, 67-74, 77-82): skipped unless asked
\* for; it writes the group and every dataset, or raises after the group and
\* some of the datasets
WriteStage(stage, wanted, sets, next) ==
    /\ apc = stage
    /\ IF ~wanted
       THEN apc' = next /\ UNCHANGED <<fs, werr>>
       ELSE \/ /\ fs' = [fs EXCEPT ![Outfile] = WithGroup(@, stage, sets)]
               /\ apc' = next
               /\ UNCHANGED werr
            \/ /\ \E e \in WriteErrors : WriteRaises(e, stage)
               /\ \E part \in SUBSET sets :
                     /\ part # sets \/ sets = {}
                     /\ fs' = [fs EXCEPT ![Outfile] = WithGroup(@, stage, part)]
    /\ UNCHANGED <<DATA, SPECTROGRAMS, SEGMENTS, aargs, backup, prior, aret>>
    /\ UNCHANGED rret
    /\ UNCHANGED notArchive

WriteTimeSeries ==
    WriteStage("timeseries", aargs.timeseries,
               {TsDataset(ts) : ts \in DATA}, "spectrogram")

WriteSpectrograms ==
    WriteStage("spectrogram", aargs.spectrogram,
               {SpecDataset(sp) : sp \in SPECTROGRAMS}, "segments")

WriteSegments ==
    WriteStage("segments", aargs.segments,
               {FlagDataset(f) : f \in SEGMENTS}, "close")

\* a return that removes the backup it made
WriteReturnCleans ==
    /\ apc = "close"
    /\ apc' = "idle"
    /\ aret' = [st |-> "ok", err |-> None]
    /\ aargs' = NoArgs
    /\ fs' = IF backup # NoPath THEN [fs EXCEPT ![backup] = NoFile] ELSE fs
    /\ UNCHANGED <<DATA, SPECTROGRAMS, SEGMENTS, backup, prior, werr>>
    /\ UNCHANGED rret
    /\ UNCHANGED notArchive

\* the with block ends and write_data_archive returns
WriteReturn ==
    /\ apc = "close"
    /\ apc' = "idle"
    /\ aret' = [st |-> "ok", err |-> None]
    /\ aargs' = NoArgs
    /\ fs' = IF aargs.timeseries /\ aargs.spectrogram /\ aargs.segments
             THEN [fs EXCEPT ![Outfile].held =
                                HeldKeys(DATA, SPECTROGRAMS, SEGMENTS)]
             ELSE fs
    /\ UNCHANGED <<DATA, SPECTROGRAMS, SEGMENTS, backup, prior, werr>>
    /\ UNCHANGED rret
    /\ UNCHANGED notArchive

\* write_data_archive, lines 83-86: restore the backup if there is one, and
\* raise the error again
WriteExcept ==
    /\ apc = "except"
    /\ fs' = IF backup # NoPath THEN RestoreBackup(fs, backup, Outfile) ELSE fs
    /\ apc' = "idle"
    /\ aret' = [st |-> "err", err |-> werr.exc]
    /\ aargs' = NoArgs
    /\ UNCHANGED <<DATA, SPECTROGRAMS, SEGMENTS, backup, prior, werr>>
    /\ UNCHANGED rret
    /\ UNCHANGED notArchive

\* h5file[group], lines 99-102, 110-113 and 120-123: the datasets of the
\* group, or dict() when the file has no such group
Looked(st, sets) == [st |-> st, sets |-> sets]

GroupContent(f, group) ==
    IF group = "timeseries" THEN f.ts
    ELSE IF group = "spectrogram" THEN f.sg
    ELSE f.seg

\* a lookup whose KeyError is not caught
H5GroupUncaught(f, group) ==
    IF group \in f.groups THEN Looked("ok", GroupContent(f, group))
    ELSE Looked("KeyError", {})

H5Group(f, group) ==
    IF group \in f.groups THEN Looked("ok", GroupContent(f, group))
    ELSE Looked("ok", {})

\* the outcome of a loop of the read: the objects added, the registry after
Loaded(st, got, reg) == [st |-> st, got |-> got, reg |-> reg]

\* lines 103-108 and 114-118: every dataset of the group is read, its
\* channel resolved and the data object added with that channel
RECURSIVE LoadAll(_, _, _, _)
LoadAll(sets, reg, mode, got) ==
    IF sets = {} THEN Loaded("ok", got, reg)
    ELSE LET d == CHOOSE x \in sets : TRUE
             r == GetChannelOf(reg, d.value.channel, mode)
         IN  IF r.st # "ok" THEN Loaded(r.st, got, r.reg)
             ELSE LoadAll(sets \ {d}, r.reg, mode,
                          got \cup {[d.value EXCEPT !.channel = r.val]})

\* one loop of the read, unless the read has raised before it
LoadGroup(before, f, group, mode) ==
    LET g == H5Group(f, group)
    IN  IF before.st # "ok" THEN Loaded(before.st, {}, before.reg)
        ELSE IF g.st # "ok" THEN Loaded(g.st, {}, before.reg)
        ELSE LoadAll(g.sets, before.reg, mode, {})

\* lines 120-126: the flags of the segments group
LoadFlags(before, f) ==
    LET g == H5Group(f, "segments")
    IN  IF before.st # "ok" THEN Loaded(before.st, {}, before.reg)
        ELSE IF g.st # "ok" THEN Loaded(g.st, {}, before.reg)
        ELSE Loaded("ok", {d.value : d \in g.sets}, before.reg)

AllEmpty == DATA = {} /\ SPECTROGRAMS = {} /\ SEGMENTS = {}
ReadEnded(st) == [st |-> st, empty |-> AllEmpty]

\* read_data_archive(sourcefile), lines 97-126, run to its end: the file is
\* opened (an IOError when there is none), and the three groups are loaded
\* one after the other into the collections
ReadDataArchive ==
    /\ apc = "idle"
    /\ IF ~fs[Outfile].exists
       THEN /\ rret' = ReadEnded("IOError")
            /\ UNCHANGED <<CHANNELS, DATA, SPECTROGRAMS, SEGMENTS>>
       ELSE LET f  == fs[Outfile]
                r1 == LoadGroup(Loaded("ok", {}, CHANNELS), f, "timeseries", MODE)
                r2 == LoadGroup(r1, f, "spectrogram", MODE)
                r3 == LoadFlags(r2, f)
            IN  /\ CHANNELS' = r3.reg
                /\ DATA' = DATA \cup r1.got
                /\ SPECTROGRAMS' = SPECTROGRAMS \cup r2.got
                /\ SEGMENTS' = SEGMENTS \cup r3.got
                /\ rret' = ReadEnded(r3.st)
    /\ ForgetWrite
    /\ UNCHANGED <<fs, apc, aargs>>
    /\ UNCHANGED <<chRest, tbVars>>

\* the run ends and another starts: the files stay, the collections and the
\* registry are empty again
NewProcess ==
    /\ apc = "idle"
    /\ DATA # {} \/ SPECTROGRAMS # {} \/ SEGMENTS # {}
    /\ DATA' = {}
    /\ SPECTROGRAMS' = {}
    /\ SEGMENTS' = {}
    /\ CHANNELS' = EmptyBag
    /\ ForgetWrite
    /\ rret' = NoRead
    /\ UNCHANGED <<fs, apc, aargs>>
    /\ UNCHANGED <<chRest, tbVars>>

NextArchive ==
    \/ ReadDataArchive
    \/ NewProcess
    \/ Acquire
    \/ WriteCall
    \/ BackupExistingArchive
    \/ WriteOpen
    \/ WriteTimeSeries
    \/ WriteSpectrograms
    \/ WriteSegments
    \/ WriteReturn
    \/ WriteExcept

\* ------------------------------------------------- claims on the archive

C16_NoBackupNoRestore ==
    /\ []((~prior.exists /\ apc \notin {"idle", "backup"}) => backup = NoPath)
    /\ [][(~prior.exists /\ apc = "backup") =>
             (apc' = "open" /\ fs' = fs)]_vars
    /\ [][(~prior.exists /\ apc = "except") => fs' = fs]_vars
    /\ [][(~prior.exists /\ apc # "idle") =>
             \A p \in TmpPaths : fs'[p] = fs[p]]_vars

\* a write to a path that held no file failed while writing segments, and
\* what it had written is still at outfile
C16_Witness ==
    /\ apc = "idle"
    /\ aret.st = "err"
    /\ ~prior.exists
    /\ werr.stage = "segments"
    /\ fs[Outfile].exists
    /\ backup = NoPath

\* C26: the backup is never deleted. After a write over an archive that was
\* there has returned, the old content is at the backup path and outfile
\* holds a file the write made; a temporary path keeps what it holds, and
\* stops holding a file only when the except clause moves the backup back
\* to outfile
C26_BackupKept ==
    /\ []((apc = "idle" /\ aret.st = "ok" /\ prior.exists) =>
             /\ backup \in TmpPaths
             /\ fs[backup] = prior
             /\ fs[Outfile].exists)
    /\ [][\A p \in TmpPaths :
             fs[p].exists =>
                 \/ fs'[p] = fs[p]
                 \/ /\ apc = "except"
                    /\ p = backup
                    /\ ~fs'[p].exists
                    /\ fs'[Outfile] = fs[p]]_vars

\* a write over an old archive has returned: the old content is at the
\* backup path, and outfile holds other content
C26_Witness ==
    /\ apc = "idle"
    /\ aret.st = "ok"
    /\ prior.exists
    /\ backup \in TmpPaths
    /\ fs[backup] = prior
    /\ fs[Outfile] # prior

\* a step of read_data_archive on an archive that is there
ReadStep == rret'.st # None /\ fs[Outfile].exists

StoredKeys(f, group, Key(_)) == {Key(d.value) : d \in GroupContent(f, group)}

\* C15: a read of an archive that lacks some of the three groups ends
\* without an error, leaves the collection of each missing group as it was,
\* and the collection of each group that is there has the keys stored in it
C15_MissingGroupsSkipped ==
    [][(ReadStep /\ fs[Outfile].groups # {"timeseries", "spectrogram", "segments"}) =>
          LET f == fs[Outfile]
          IN  /\ rret'.st = "ok"
              /\ IF "timeseries" \in f.groups
                 THEN StoredKeys(f, "timeseries", TimeSeriesKey)
                          \subseteq {TimeSeriesKey(ts) : ts \in DATA'}
                 ELSE DATA' = DATA
              /\ IF "spectrogram" \in f.groups
                 THEN StoredKeys(f, "spectrogram", SpectrogramKey)
                          \subseteq {SpectrogramKey(sp) : sp \in SPECTROGRAMS'}
                 ELSE SPECTROGRAMS' = SPECTROGRAMS
              /\ IF "segments" \in f.groups
                 THEN {d.value : d \in f.seg} \subseteq SEGMENTS'
                 ELSE SEGMENTS' = SEGMENTS]_vars

C15_Witness ==
    /\ rret = [st |-> "ok", empty |-> TRUE]
    /\ fs[Outfile].groups = {"timeseries", "spectrogram"}
    /\ fs[Outfile].ts # {}
    /\ DATA # {}
    /\ SEGMENTS = {}

\* -------------------------------------------------------------- the tabs

Tabs == {1, 2}
States == {"S1", "S2"}

\* a plot: its output path, its state (None: every state), whether it is
\* thread-safe, its type, and the channels, the compound flags (each the
\* flags it combines) and the trigger generator it draws from
Plot(outputfile, state, threadsafe, type, channels, flags, etg) ==
    [outputfile |-> outputfile, state |-> state, threadsafe |-> threadsafe,
     type |-> type, channels |-> channels, flags |-> flags, etg |-> etg,
     new |-> TRUE]

\* the plots a configuration may give a tab; the first and the third write
\* the same file
PlotCatalogue ==
    {Plot("a.png", None, TRUE, "statevector", {"H1:A"}, {}, None),
     Plot("b.png", "S1", FALSE, "spectrum", {"L1:B"}, {}, None),
     Plot("a.png", "S2", FALSE, "segments", {}, {<<"H1:F", "L1:G">>}, None),
     Plot("c.png", "S2", TRUE, "triggers", {"H1:A"}, {}, "omicron")}

PlotLists == UNION {[1..n -> PlotCatalogue] : n \in 0..MaxPlots}

\* the acquisition calls of process_state in the order it makes them, and
\* the plot types each collects its request from
Stages ==
    <<"timeseries", "statevector", "spectrogram", "spectrum", "segments",
      "triggers">>
StageTypes(stage) ==
    CASE stage = "timeseries" ->
             {"timeseries", "spectrogram", "spectrum", "histogram"}
      [] stage = "statevector" -> {"statevector"}
      [] stage = "spectrogram" -> {"spectrogram", "spectrum"}
      [] stage = "spectrum" -> {"spectrum"}
      [] stage = "segments" -> {"segments"}
      [] stage = "triggers" -> {"triggers"}
StageSet == {Stages[i] : i \in 1..Len(Stages)}

\* what one plot adds to a request: its channels (line 457), the flags its
\* compound flags are made of (lines 477-478), its (etg, channel) pairs
\* (lines 498-499)
Draws(plot, stage) ==
    CASE stage = "segments" ->
             UNION {{cflag[k] : k \in 1..Len(cflag)} : cflag \in plot.flags}
      [] stage = "triggers" -> {<<plot.etg, c>> : c \in plot.channels}
      [] OTHER -> plot.channels

\* a collection that takes the plots that are not new as well
CollectAll(plist, stage) ==
    UNION {Draws(plist[i], stage) :
              i \in {j \in 1..Len(plist) :
                        plist[j].type \in StageTypes(stage)}}

\* SimpleStateTab.get_channels, get_flags, get_triggers: what the plots of
\* the given types that are still new draw from
Collect(plist, stage) ==
    UNION {Draws(plist[i], stage) :
              i \in {j \in 1..Len(plist) :
                        plist[j].type \in StageTypes(stage) /\ plist[j].new}}

\* a reset that marks nothing
MarkNothing(plist, written) == plist

\* a reset that makes every plot new
MarkRenewed(plist, written) ==
    [i \in 1..Len(plist) |-> [plist[i] EXCEPT !.new = TRUE]]

\* process_state, lines 224-226
MarkWritten(plist, written) ==
    [i \in 1..Len(plist) |->
        IF \E k \in 1..Len(written) : written[k] = plist[i].outputfile
        THEN [plist[i] EXCEPT !.new = FALSE]
        ELSE plist[i]]

\* process_state, lines 295-296: the places in the list of the plots that
\* are new and for this state
Selected(plist, state) ==
    SelectSeq([i \in 1..Len(plist) |-> i],
              LAMBDA i : plist[i].new
                         /\ (plist[i].state = None \/ plist[i].state = state))

\* the plots in the order of the list
Unsorted(plist, sel) == sel

\* process_state, line 300: the key the plots are sorted by
SortKey(plot) == IF plot.threadsafe THEN 1 ELSE 2

\* process_state, line 300: sorted() is stable and the key has two values
SortedPlots(plist, sel) ==
    SelectSeq(sel, LAMBDA i : SortKey(plist[i]) = 1)
        \o SelectSeq(sel, LAMBDA i : SortKey(plist[i]) = 2)

AcquisitionErrors == {"IOError", "ValueError"}
NoRequests == [k \in StageSet |-> {}]
NoCall == [tab |-> 1, state |-> None, plotqueue |-> FALSE]

InitTabs ==
    /\ plots \in {pl \in [Tabs -> PlotLists] :
                     /\ Len(pl[1]) + Len(pl[2]) <= MaxPlots
                     /\ Len(pl[1]) >= Len(pl[2])}
    /\ WRITTEN_PLOTS = <<>>
    /\ tpc = "idle"
    /\ tcall = NoCall
    /\ entry = <<>>
    /\ requests = NoRequests
    /\ todo = <<>>
    /\ dlog = <<>>
    /\ running = {}
    /\ tret = [st |-> None, exc |-> None, at |-> None]

\* process_state(state, plotqueue=...) is called on a tab and marks the
\* plots of the tab whose path is recorded (lines 216-226)
CallProcessState ==
    /\ tpc = "idle"
    /\ \E t \in Tabs, s \in States, q \in BOOLEAN :
          /\ tcall' = [tab |-> t, state |-> s, plotqueue |-> q]
          /\ plots' = [plots EXCEPT ![t] = MarkWritten(@, WRITTEN_PLOTS)]
    /\ tpc' = "acquire"
    /\ entry' = WRITTEN_PLOTS
    /\ requests' = NoRequests
    /\ todo' = <<>>
    /\ tret' = [st |-> "pending", exc |-> None, at |-> None]
    /\ UNCHANGED <<WRITTEN_PLOTS, dlog, running>>
    /\ UNCHANGED notTabs

\* process_state is over: its locals are gone
ProcessStateExits ==
    /\ tpc' = "idle"
    /\ tcall' = NoCall
    /\ entry' = <<>>
    /\ requests' = NoRequests
    /\ todo' = <<>>

\* a raise that hands the caller an error of its own in place of e
ProcessStateRaisesWrapped(e, at) ==
    /\ ProcessStateExits
    /\ tret' = [st |-> "err", exc |-> "TabError", at |-> at]

\* process_state raises e from stage at
ProcessStateRaises(e, at) ==
    /\ ProcessStateExits
    /\ tret' = [st |-> "err", exc |-> e, at |-> at]

\* process_state, lines 231-287: for each acquisition in turn the request
\* is collected from the plots; nothing is called for an empty request; a
\* call that is made returns, or raises and process_state is over
AcquireData ==
    /\ tpc = "acquire"
    /\ LET req == [k \in StageSet |-> Collect(plots[tcall.tab], k)]
       IN  \/ /\ requests' = req
              /\ tpc' = "select"
              /\ UNCHANGED <<tcall, entry, todo, tret>>
           \/ /\ \E k \in StageSet : req[k] # {}
              /\ \E e \in AcquisitionErrors : ProcessStateRaises(e, "acquire")
    /\ UNCHANGED <<plots, WRITTEN_PLOTS, dlog, running>>
    /\ UNCHANGED notTabs

\* process_state, lines 294-300: select and sort
SelectPlots ==
    /\ tpc = "select"
    /\ todo' = SortedPlots(plots[tcall.tab],
                           Selected(plots[tcall.tab], tcall.state))
    /\ tpc' = "dispatch"
    /\ UNCHANGED <<plots, WRITTEN_PLOTS, tcall, entry, requests, dlog, running,
                   tret>>
    /\ UNCHANGED notTabs

PlotErrors == {"RuntimeError"}

\* a turn of the loop that goes on to the plot with nothing recorded
RecordPlotSkipped ==
    /\ tpc = "dispatch"
    /\ todo # <<>>
    /\ tpc' = "run"
    /\ UNCHANGED <<plots, WRITTEN_PLOTS, tcall, entry, requests, todo, dlog,
                   running, tret>>
    /\ UNCHANGED notTabs

\* process_state, lines 300-301: the next plot of the sorted selection has
\* its path recorded
RecordPlot ==
    /\ tpc = "dispatch"
    /\ todo # <<>>
    /\ LET i == Head(todo)
       IN  /\ WRITTEN_PLOTS' =
                 Append(WRITTEN_PLOTS, plots[tcall.tab][i].outputfile)
           /\ dlog' = Append(dlog, [tab |-> tcall.tab, idx |-> i])
    /\ tpc' = "run"
    /\ UNCHANGED <<plots, tcall, entry, requests, todo, running, tret>>
    /\ UNCHANGED notTabs

\* a loop that starts a process for every plot
RunPlotAlwaysQueued ==
    /\ tpc = "run"
    /\ running' = running \cup {<<tcall.tab, Head(todo)>>}
    /\ todo' = Tail(todo)
    /\ tpc' = "dispatch"
    /\ UNCHANGED <<tcall, entry, requests, tret, WRITTEN_PLOTS, dlog, plots>>
    /\ UNCHANGED notTabs

\* a loop that takes the path back when the plot raises
RunPlotUnrecords ==
    /\ tpc = "run"
    /\ LET i == Head(todo)
           queued == tcall.plotqueue /\ plots[tcall.tab][i].threadsafe
       IN  /\ running' = IF queued THEN running \cup {<<tcall.tab, i>>}
                         ELSE running
           /\ \/ /\ todo' = Tail(todo)
                 /\ tpc' = "dispatch"
                 /\ UNCHANGED <<tcall, entry, requests, tret, WRITTEN_PLOTS,
                                dlog>>
              \/ /\ ~queued
                 /\ \E e \in PlotErrors : ProcessStateRaises(e, "plot")
                 /\ WRITTEN_PLOTS' =
                       SubSeq(WRITTEN_PLOTS, 1, Len(WRITTEN_PLOTS) - 1)
                 /\ dlog' = SubSeq(dlog, 1, Len(dlog) - 1)
    /\ UNCHANGED plots
    /\ UNCHANGED notTabs

\* process_state, lines 302-312: the plot is started in a subprocess, or
\* processed here, which may raise
RunPlot ==
    /\ tpc = "run"
    /\ LET i == Head(todo)
           queued == tcall.plotqueue /\ plots[tcall.tab][i].threadsafe
       IN  /\ running' = IF queued THEN running \cup {<<tcall.tab, i>>}
                         ELSE running
           /\ \/ /\ todo' = Tail(todo)
                 /\ tpc' = "dispatch"
                 /\ UNCHANGED <<tcall, entry, requests, tret>>
              \/ /\ ~queued
                 /\ \E e \in PlotErrors : ProcessStateRaises(e, "plot")
    /\ UNCHANGED <<plots, WRITTEN_PLOTS, dlog>>
    /\ UNCHANGED notTabs

\* process_state, lines 313-315: the loop is over and the call returns
ProcessStateReturn ==
    /\ tpc = "dispatch"
    /\ todo = <<>>
    /\ ProcessStateExits
    /\ tret' = [st |-> "ok", exc |-> None, at |-> None]
    /\ UNCHANGED <<plots, WRITTEN_PLOTS, dlog, running>>
    /\ UNCHANGED notTabs

\* a subprocess started at line 306 finishes plot.queue
PlotProcessFinishes ==
    /\ \E x \in running : running' = running \ {x}
    /\ UNCHANGED <<plots, WRITTEN_PLOTS, tpc, tcall, entry, requests, todo,
                   dlog, tret>>
    /\ UNCHANGED notTabs

NextTabs ==
    \/ CallProcessState
    \/ AcquireData
    \/ SelectPlots
    \/ RecordPlot
    \/ RunPlot
    \/ ProcessStateReturn
    \/ PlotProcessFinishes

\* --------------------------------------------------- claims on the tabs

\* the plot an entry of the log stands for
PlotOf(d) == plots[d.tab][d.idx]

\* the entries of WRITTEN_PLOTS the running call has recorded
ThisCall == (Len(entry) + 1)..Len(dlog)

\* the running call has got past the reset of the new flags
PastReset == tpc \in {"acquire", "select", "dispatch", "run"}

\* plot i of the calling tab writes a path that a call of another tab
\* recorded before this call
RecordedByOther(i) ==
    \E k \in 1..Len(entry) :
        /\ entry[k] = plots[tcall.tab][i].outputfile
        /\ dlog[k].tab # tcall.tab

\* C8: a path that plots of two different tabs write is dispatched by calls
\* of one of the tabs only; in the later call of the other tab the plot is
\* marked not new before plots are selected, and the call does not dispatch
\* it.
C8_CrossTabDispatchedOnce ==
    /\ \A i, j \in 1..Len(dlog) :
          WRITTEN_PLOTS[i] = WRITTEN_PLOTS[j] => dlog[i].tab = dlog[j].tab
    /\ PastReset =>
          \A i \in 1..Len(plots[tcall.tab]) :
              RecordedByOther(i) =>
                  /\ ~plots[tcall.tab][i].new
                  /\ \A k \in ThisCall : dlog[k].idx # i

\* a call has selected its plots, and a plot of its tab that is for its
\* state writes a path another tab's call recorded
C8_Witness ==
    /\ tpc = "dispatch"
    /\ \E i \in 1..Len(plots[tcall.tab]) :
          /\ RecordedByOther(i)
          /\ plots[tcall.tab][i].state \in {None, tcall.state}

\* a dispatch: process_state records one more path
DispatchStep == Len(dlog') = Len(dlog) + 1

\* C9 as stated: in one call no thread-safe plot is dispatched before a
\* thread-unsafe one, and plots with the same flag go in list order.
C9_UnsafeFirst ==
    [][DispatchStep =>
          \A k \in ThisCall :
              LET a == PlotOf(dlog[k])
                  b == PlotOf(dlog'[Len(dlog')])
              IN  /\ ~(a.threadsafe /\ ~b.threadsafe)
                  /\ a.threadsafe = b.threadsafe =>
                         dlog[k].idx < dlog'[Len(dlog')].idx]_vars

\* C9: in one call no thread-unsafe plot is dispatched before a thread-safe
\* one (the thread-safe plots go first), and plots with the same flag are
\* dispatched in the order they have in the tab's list.
C9_SafeFirst ==
    [][DispatchStep =>
          \A k \in ThisCall :
              LET a == PlotOf(dlog[k])
                  b == PlotOf(dlog'[Len(dlog')])
              IN  /\ ~(~a.threadsafe /\ b.threadsafe)
                  /\ a.threadsafe = b.threadsafe =>
                         dlog[k].idx < dlog'[Len(dlog')].idx]_vars

\* a call has dispatched a thread-safe plot and then a thread-unsafe plot
\* that comes before it in the list
C9_Witness ==
    /\ tpc = "dispatch"
    /\ \E k1, k2 \in ThisCall :
          /\ k1 < k2
          /\ PlotOf(dlog[k1]).threadsafe
          /\ ~PlotOf(dlog[k2]).threadsafe
          /\ dlog[k2].idx < dlog[k1].idx

\* the acquisitions of the running call have been made
Acquired == tpc \in {"select", "dispatch", "run"}

\* plot i of the calling tab is for the state of the call
ForState(i) == plots[tcall.tab][i].state \in {None, tcall.state}

\* plot i of the calling tab is new and of a type stage k collects from
Contributes(i, k) ==
    /\ plots[tcall.tab][i].new
    /\ plots[tcall.tab][i].type \in StageTypes(k)

\* C10 as stated: every item acquisition is requested for is drawn from a
\* plot that is still new and whose state is that of the call or None.
C10_OnlyPlotsOfState ==
    Acquired =>
        \A k \in StageSet : \A x \in requests[k] :
            \E i \in 1..Len(plots[tcall.tab]) :
                /\ Contributes(i, k)
                /\ ForState(i)
                /\ x \in Draws(plots[tcall.tab][i], k)

\* C10: every item acquisition is requested for is drawn from a plot of the
\* tab that is still new and of a type of that acquisition, and every such
\* plot, whatever its state, has all it draws from requested.
C10_OnlyNewPlots ==
    Acquired =>
        \A k \in StageSet :
            /\ \A x \in requests[k] :
                  \E i \in 1..Len(plots[tcall.tab]) :
                      /\ Contributes(i, k)
                      /\ x \in Draws(plots[tcall.tab][i], k)
            /\ \A i \in 1..Len(plots[tcall.tab]) :
                  Contributes(i, k) =>
                      Draws(plots[tcall.tab][i], k) \subseteq requests[k]

\* acquisition has been requested for what a new plot of another state
\* draws from
C10_Witness ==
    /\ Acquired
    /\ \E k \in StageSet : \E i \in 1..Len(plots[tcall.tab]) :
          /\ Contributes(i, k)
          /\ ~ForState(i)
          /\ Draws(plots[tcall.tab][i], k) # {}
          /\ Draws(plots[tcall.tab][i], k) \subseteq requests[k]

\* plot i of tab t has its path in WRITTEN_PLOTS, put there for it
Recorded(t, i) ==
    \E k \in 1..Len(dlog) :
        /\ dlog[k] = [tab |-> t, idx |-> i]
        /\ WRITTEN_PLOTS[k] = plots[t][i].outputfile

\* process_state calls plot.process or starts the subprocess of a plot
RunStep == tpc = "run" /\ tpc' # "run"

\* C11: when process_state calls plot.process or starts the subprocess of a
\* plot, the plot's path is already in WRITTEN_PLOTS, and so is the path of
\* every plot whose subprocess has not finished.
C11_RecordedBeforeRun ==
    /\ [][RunStep => Recorded(tcall.tab, Head(todo))]_vars
    /\ [](\A x \in running : Recorded(x[1], x[2]))

\* a plot is recorded and about to be run while the subprocess of a plot
\* recorded earlier has not finished
C11_Witness ==
    /\ tpc = "run"
    /\ Recorded(tcall.tab, Head(todo))
    /\ running # {}

\* an acquisition call of the running process_state raises
AcquisitionRaises == tpc = "acquire" /\ tpc' = "idle"

\* C17: when an acquisition call raises, process_state ends with that error,
\* raised from the acquisitions; the call has recorded no path, WRITTEN_PLOTS
\* is what it was on entry, and no plot was processed or started
C17_AcquisitionErrorPropagates ==
    [][AcquisitionRaises =>
          /\ tret'.st = "err"
          /\ tret'.exc \in AcquisitionErrors
          /\ tret'.at = "acquire"
          /\ WRITTEN_PLOTS' = entry
          /\ Len(dlog') = Len(entry)
          /\ running' = running]_vars

C17_Witness ==
    /\ tpc = "idle"
    /\ tret.st = "err"
    /\ tret.at = "acquire"
    /\ tret.exc = "ValueError"
    /\ WRITTEN_PLOTS # <<>>

\* the running call recorded plot i of tab t
RecordedNow(t, i) ==
    /\ tpc # "idle"
    /\ tcall.tab = t
    /\ \E k \in ThisCall : dlog[k] = [tab |-> t, idx |-> i]

NeverNewAgain ==
    \A t \in Tabs : \A i \in 1..Len(plots[t]) :
        ~plots[t][i].new => ~plots'[t][i].new

\* C18 (as stated): a plot whose path a call recorded is not new once that
\* call has returned, and a plot that is not new never becomes new again
C18_NotNewOnceRecorded ==
    /\ [](\A t \in Tabs : \A i \in 1..Len(plots[t]) :
             (Recorded(t, i) /\ ~RecordedNow(t, i)) => ~plots[t][i].new)
    /\ [][NeverNewAgain]_vars

\* the running call returns
ReturnStep == tpc # "idle" /\ tpc' = "idle" /\ tret'.st = "ok"

\* C18 (amended): a plot whose path was recorded before a call of its tab is
\* not new from the reset of that call on; the plots a call records are
\* still new when it returns; a plot that is not new never becomes new again
C18_NotNewFromNextCall ==
    /\ [](PastReset =>
             \A i \in 1..Len(plots[tcall.tab]) :
                 (\E k \in 1..Len(entry) :
                     entry[k] = plots[tcall.tab][i].outputfile)
                 => ~plots[tcall.tab][i].new)
    /\ [][ReturnStep => \A k \in ThisCall : PlotOf(dlog[k]).new']_vars
    /\ [][NeverNewAgain]_vars

\* a later call of the tab is past its reset, and a plot that an earlier
\* call of the tab recorded is not new
C18_Witness ==
    /\ PastReset
    /\ \E i \in 1..Len(plots[tcall.tab]) :
          /\ \E k \in 1..Len(entry) : dlog[k] = [tab |-> tcall.tab, idx |-> i]
          /\ ~plots[tcall.tab][i].new

\* C19: no path is in WRITTEN_PLOTS twice
C19_PathRecordedOnce ==
    \A i, j \in 1..Len(WRITTEN_PLOTS) :
        WRITTEN_PLOTS[i] = WRITTEN_PLOTS[j] => i = j

\* plot.process() raises in the running call
PlotRaises == tpc = "run" /\ tpc' = "idle"

IsPrefix(a, b) == Len(a) <= Len(b) /\ SubSeq(b, 1, Len(a)) = a

\* C23: when plot.process() raises, the path of the plot is in WRITTEN_PLOTS
\* and the call ends there with that error, dispatching nothing more;
\* nothing is ever taken out of WRITTEN_PLOTS; and a later call marks every
\* plot of its tab whose path was recorded before it, the failed one
\* included, and does not dispatch it
C23_FailedPlotStaysRecorded ==
    /\ [][PlotRaises =>
             /\ Recorded(tcall.tab, Head(todo))
             /\ ~(tcall.plotqueue /\ plots[tcall.tab][Head(todo)].threadsafe)
             /\ WRITTEN_PLOTS' = WRITTEN_PLOTS
             /\ dlog' = dlog
             /\ running' = running
             /\ tret'.st = "err"
             /\ tret'.exc \in PlotErrors]_vars
    /\ [][IsPrefix(WRITTEN_PLOTS, WRITTEN_PLOTS') /\ IsPrefix(dlog, dlog')]_vars
    /\ [](PastReset =>
             \A i \in 1..Len(plots[tcall.tab]) :
                 (\E k \in 1..Len(entry) :
                     entry[k] = plots[tcall.tab][i].outputfile)
                 => /\ ~plots[tcall.tab][i].new
                    /\ \A k \in ThisCall : dlog[k].idx # i)

\* plot.process() raised with plots of the call still to come, after an
\* earlier call had recorded a path
C23_Witness ==
    /\ tpc = "idle"
    /\ tret.st = "err"
    /\ tret.at = "plot"
    /\ Len(WRITTEN_PLOTS) >= 2
    /\ \E t \in Tabs : \E i \in 1..Len(plots[t]) :
          /\ plots[t][i].outputfile = WRITTEN_PLOTS[Len(WRITTEN_PLOTS)]
          /\ plots[t][i].new

\* the plot the loop is at goes to a process of its own
Queued == tcall.plotqueue /\ plots[tcall.tab][Head(todo)].threadsafe

\* C24: with a plot queue a selected thread-safe plot is started in a
\* process of its own, which may still be running, its path recorded, when
\* process_state has returned; every other plot is processed within the
\* call, so that nothing but a queued thread-safe plot is ever left running
C24_QueuedPlotsOutliveCall ==
    /\ [][(tpc = "run" /\ tpc' # tpc) =>
             IF Queued
             THEN /\ running' = running \cup {<<tcall.tab, Head(todo)>>}
                  /\ tpc' = "dispatch"
             ELSE running' = running]_vars
    /\ [][\A r \in running' \ running :
             /\ tpc = "run"
             /\ Queued
             /\ r = <<tcall.tab, Head(todo)>>]_vars
    /\ [](\A r \in running :
             /\ plots[r[1]][r[2]].threadsafe
             /\ Recorded(r[1], r[2]))
    /\ []((tpc # "idle" /\ ~tcall.plotqueue) =>
             \A k \in ThisCall : <<dlog[k].tab, dlog[k].idx>> \notin running)
    /\ [][ReturnStep => running' = running]_vars

\* process_state is at its return with a plot it started still running
\* and a thread-unsafe plot of the same call done
C24_Witness ==
    /\ tpc = "dispatch"
    /\ todo = <<>>
    /\ tcall.plotqueue
    /\ \E k \in ThisCall : <<dlog[k].tab, dlog[k].idx>> \in running
    /\ \E k \in ThisCall :
          /\ ~plots[dlog[k].tab][dlog[k].idx].threadsafe
          /\ <<dlog[k].tab, dlog[k].idx>> \notin running

\* each component on its own, the other two at rest
ChannelsAtRest == InitChannels /\ MODE = "GPS"
ArchiveAtRest == InitArchive /\ ~fs[Outfile].exists
TabsAtRest == InitTabs /\ plots = [t \in Tabs |-> <<>>]

Init == InitChannels /\ InitArchive /\ InitTabs

Next == NextChannels \/ NextArchive \/ NextTabs

Spec == Init /\ [][Next]_vars

InitSpecChannels == InitChannels /\ ArchiveAtRest /\ TabsAtRest

SpecChannels == InitSpecChannels /\ [][NextChannels]_vars

InitSpecArchive == ChannelsAtRest /\ InitArchive /\ TabsAtRest

SpecBatch == InitSpecChannels /\ [][NextBatch]_vars /\ BatchFairness

SpecArchive == InitSpecArchive /\ [][NextArchive]_vars

InitSpecTabs == ChannelsAtRest /\ ArchiveAtRest /\ InitTabs

SpecTabs == InitSpecTabs /\ [][NextTabs]_vars

====
